---- MODULE Spec2Model ----
(***************************************************************************)
(* Tenant connector lifecycle of the connector service:                    *)
(*   - SharePointOnlineEventService.process_event and its two handlers     *)
(*     (connectors/sources/microsoft/sharepoint_online/event_service.py),  *)
(*   - resume_sync_services (connectors_main.py),                          *)
(*   - lifespan with the start and stop of the messaging producer and of   *)
(*     the Kafka consumers (connectors_main.py).                           *)
(* Handlers are asyncio coroutines: a step of the model is the code that   *)
(* runs between two awaits.  Collaborators (configuration service, data    *)
(* processor, persistence service, account initializers) are the           *)
(* environment: each call returns one of a small set of values or raises.  *)
(***************************************************************************)
EXTENDS Integers, Sequences, FiniteSets, TLC

\* ----------------------------------------------------------------- bounds
MaxEvents == 3      \* events dispatched to process_event in one run
MaxInFlight == 2    \* init handlers suspended at an await at the same time
MaxOrgs == 2        \* organizations returned by get_all_orgs
MaxApps == 2        \* integrations returned by get_org_apps for one org
\* The same three, where the event handlers and the resume task run side by side.
ServiceMaxEvents == 2
ServiceMaxOrgs == 1
ServiceMaxApps == 1
MaxHandlerRuns == 2
MaxShutdownCalls == 2
MaxDependencyCalls == 2
TaskMaxEvents == 3

\* ----------------------------------------------------------------- values
None == "<None>"        \* Python None
Absent == "<absent>"    \* a key that is not in a dict

RetTrue == "True"       \* the coroutine returned True
RetFalse == "False"     \* the coroutine returned False
Raised == "raise"       \* the coroutine raised

OrgIds == {"org-1", "org-2"}

SharePoint == "sharepoint"
OneDrive == "onedrive"

\* Python truthiness of a dict value read with .get(): None and "" are falsy.
Truthy(v) == v \notin {None, ""}

\* dict.get(key): None when the key is not in the dict.
Get(d, k) == IF d[k] = Absent THEN None ELSE d[k]

\* dict.get(key, default)
GetOr(d, k, default) == IF d[k] = Absent THEN default ELSE d[k]

\* ---------------------------------------------------------- configuration
\* What config_service.get_config may return: None, or a dict.  A dict is a
\* record over the keys the code reads; Absent marks a key the dict lacks.
CredentialKeys == {"tenantId", "clientId", "clientSecret", "sharepointDomain"}

ConfigNone ==
    [isNone |-> TRUE, tenantId |-> Absent, clientId |-> Absent,
     clientSecret |-> Absent, sharepointDomain |-> Absent, hasAdminConsent |-> Absent]

ConfigDict(t, c, s, d, a) ==
    [isNone |-> FALSE, tenantId |-> t, clientId |-> c,
     clientSecret |-> s, sharepointDomain |-> d, hasAdminConsent |-> a]

ConfigChoices ==
    { ConfigNone,
      ConfigDict(Absent, Absent, Absent, Absent, Absent),      \* {}
      ConfigDict("t", "c", "s", "d", "True"),                  \* complete
      ConfigDict("t", "c", "s", Absent, Absent),               \* no domain
      ConfigDict("t", "", "s", "d", Absent),                   \* clientId ""
      ConfigDict("t", "c", None, "d", "False") }               \* secret None

\* `not credentials_config`: None or the empty dict.
ConfigFalsy(cfg) ==
    \/ cfg.isNone
    \/ /\ \A k \in CredentialKeys : cfg[k] = Absent
       /\ cfg.hasAdminConsent = Absent

\* The fields each handler passes to all(...).
MandatoryFields(source) ==
    IF source = SharePoint
    THEN {"tenantId", "clientId", "clientSecret", "sharepointDomain"}
    ELSE {"tenantId", "clientId", "clientSecret"}

\* any(...) where the code has all(...).
AllCredentialsAny(cfg, source) ==
    \E k \in MandatoryFields(source) : Truthy(Get(cfg, k))

\* all((tenant_id, client_id, client_secret[, sharepoint_domain]))
AllCredentials(cfg, source) ==
    \A k \in MandatoryFields(source) : Truthy(Get(cfg, k))

\* The credentials object the handler constructs from the dict.
MakeCredentials(cfg, source) ==
    [tenant_id |-> Get(cfg, "tenantId"),
     client_id |-> Get(cfg, "clientId"),
     client_secret |-> Get(cfg, "clientSecret"),
     sharepoint_domain |-> IF source = SharePoint
                           THEN Get(cfg, "sharepointDomain") ELSE None,
     has_admin_consent |-> GetOr(cfg, "hasAdminConsent", "False")]

NoCredentials ==
    [tenant_id |-> None, client_id |-> None, client_secret |-> None,
     sharepoint_domain |-> None, has_admin_consent |-> "False"]

\* -------------------------------------------------------------- instances
\* A connector instance: the data processor it was given, the credentials it
\* was given, and (to tell two instances apart) the build that made it.
NoInstance ==
    [id |-> 0, by |-> "none", source |-> "none", org |-> None,
     processor |-> "none", credentials |-> NoCredentials]

MakeConnector(id, by, source, org, processor, credentials) ==
    [id |-> id, by |-> by, source |-> source, org |-> org,
     processor |-> processor, credentials |-> credentials]

IsInstance(x) == x.id # 0


\* ------------------------------------------------------------------ state
VARIABLES
    slot,         \* app_container.sharepoint_connector: the overriding object
    odSlot,       \* app_container.onedrive_connector: the overriding object
    tasks,        \* what asyncio.create_task was given, in spawn order
    inflight,     \* init handlers suspended at an await
    nDispatched,  \* events handed to process_event so far
    last,         \* the process_event call that returned last
    lastBuilt,    \* per (org, source): the instance of the last completed build
    rs,           \* the resume_sync_services coroutine: its locals and position
    lc            \* lifespan: its position, the producer, the consumers

\* --------------------------------------------------------------- events
InitEvent == "sharepointonline.init"
StartEvent == "sharepointonline.start"
ResyncEvent == "sharepointonline.resync"

EventTypes ==
    {InitEvent, StartEvent, ResyncEvent, "onedrive.delete", "sharepointonline.stop"}

\* A payload is a dict with or without "orgId", or not a dict at all.
Payloads ==
    {[isMap |-> FALSE, orgId |-> Absent]} \cup
    {[isMap |-> TRUE, orgId |-> v] : v \in {Absent, ""} \cup OrgIds}

\* The chain with its last branch taken as the default: whatever is not init
\* or start is handled as resync.
RouteElseResync(event_type) ==
    IF event_type = "sharepointonline.init" THEN "init"
    ELSE "start_sync"

\* The chain without its resync branch.
RouteNoResync(event_type) ==
    IF event_type = "sharepointonline.init" THEN "init"
    ELSE IF event_type = "sharepointonline.start" THEN "start_sync"
    ELSE "unknown"

\* process_event's if/elif chain: the handler an event type is given to.
Route(event_type) ==
    IF event_type = "sharepointonline.init" THEN "init"
    ELSE IF event_type = "sharepointonline.start" THEN "start_sync"
    ELSE IF event_type = "sharepointonline.resync" THEN "start_sync"
    ELSE "unknown"

\* process_event without its try/except.
BoundaryMissing(outcome) == outcome

\* process_event's try/except around the handlers: an exception that leaves a
\* handler is logged and becomes False.
Boundary(outcome) == IF outcome = Raised THEN RetFalse ELSE outcome

\* What calling a provider that nothing has overridden yet gives the start
\* handler: no connector, or an exception.
UnregisteredRead == {"absent", "raise"}

\* The init handler without its `if not org_id` check.
InitEntryNoOrgCheck(payload, setupRaises) ==
    IF ~payload.isMap THEN Raised
    ELSE IF setupRaises THEN RetFalse
    ELSE "await"

\* _handle_sharepoint_init up to its first await.  "await" is the suspension
\* at data_entities_processor.initialize().  An exception before org_id is
\* bound makes the except block's own log line raise (it reads org_id).
InitEntry(payload, setupRaises) ==
    IF ~payload.isMap THEN Raised
    ELSE IF ~Truthy(Get(payload, "orgId")) THEN RetFalse
    ELSE IF setupRaises THEN RetFalse
    ELSE "await"

\* _handle_sharepoint_init from the return of initialize() to the next await
\* (config_service.get_config).
InitAfterProcessor(initializeRaises) ==
    IF initializeRaises THEN RetFalse ELSE "await"

\* The same without the `if not all(...)` check.
InitAfterConfigUnchecked(id, org, processor, getConfigRaises, cfg, constructRaises) ==
    IF getConfigRaises THEN [ret |-> RetFalse, inst |-> NoInstance]
    ELSE IF ConfigFalsy(cfg) THEN [ret |-> RetFalse, inst |-> NoInstance]
    ELSE IF constructRaises THEN [ret |-> RetFalse, inst |-> NoInstance]
    ELSE [ret |-> RetTrue,
          inst |-> MakeConnector(id, "init", SharePoint, org, processor,
                                 MakeCredentials(cfg, SharePoint))]

\* _handle_sharepoint_init from the return of get_config to the end: the
\* result, and the connector it registers (NoInstance: none).
InitAfterConfig(id, org, processor, getConfigRaises, cfg, constructRaises) ==
    IF getConfigRaises THEN [ret |-> RetFalse, inst |-> NoInstance]
    ELSE IF ConfigFalsy(cfg) THEN [ret |-> RetFalse, inst |-> NoInstance]
    ELSE IF ~AllCredentials(cfg, SharePoint) THEN [ret |-> RetFalse, inst |-> NoInstance]
    ELSE IF constructRaises THEN [ret |-> RetFalse, inst |-> NoInstance]
    ELSE [ret |-> RetTrue,
          inst |-> MakeConnector(id, "init", SharePoint, org, processor,
                                 MakeCredentials(cfg, SharePoint))]

\* An override that left the provider returning what it returned before.
OverrideIgnored(current, instance) == current

\* provider.override(providers.Object(instance)): the provider now returns
\* the instance, whatever it returned before.
Override(current, instance) == instance

\* The start handler if its `else` branch reported success as well.
StartSyncLenient(payload, current, read) ==
    IF ~payload.isMap THEN [ret |-> RetFalse, run |-> NoInstance]
    ELSE IF ~Truthy(Get(payload, "orgId")) THEN [ret |-> RetFalse, run |-> NoInstance]
    ELSE IF ~IsInstance(current) /\ read = "raise" THEN [ret |-> RetFalse, run |-> NoInstance]
    ELSE IF IsInstance(current) THEN [ret |-> RetTrue, run |-> current]
    ELSE [ret |-> RetTrue, run |-> NoInstance]

\* _handle_sharepoint_start_sync, which has no await: the result and the
\* connector whose run() is spawned (NoInstance: none).
StartSync(payload, current, read) ==
    IF ~payload.isMap THEN [ret |-> RetFalse, run |-> NoInstance]
    ELSE IF ~Truthy(Get(payload, "orgId")) THEN [ret |-> RetFalse, run |-> NoInstance]
    ELSE IF ~IsInstance(current) /\ read = "raise" THEN [ret |-> RetFalse, run |-> NoInstance]
    ELSE IF IsInstance(current) THEN [ret |-> RetTrue, run |-> current]
    ELSE [ret |-> RetFalse, run |-> NoInstance]

\* asyncio.create_task(connector.run()) and create_task(perform_initial_sync)
\* The task starts out running; nothing keeps the handle create_task returns.
Task(kind, by, org, conn) ==
    [kind |-> kind, by |-> by, org |-> org, conn |-> conn, state |-> "running"]

\* The end of a task if a failing task took the others down with it.
OnTaskEndGrouped(ts, k, how) ==
    [j \in DOMAIN ts |->
        IF j = k THEN [ts[j] EXCEPT !.state = how]
        ELSE IF how = "failed" /\ ts[j].state = "running"
        THEN [ts[j] EXCEPT !.state = "cancelled"]
        ELSE ts[j]]

\* A task ends: its result or its exception stays on the task object, which
\* nothing awaits; the other tasks are not touched.
OnTaskEnd(ts, k, how) == [ts EXCEPT ![k].state = how]

Key(org, source) == <<org, source>>
Keys == OrgIds \X {SharePoint, OneDrive}

\* The record of a finished process_event call.
Finished(n, type, payload, outcome, raised, calls, fetched, cfg, built, ran, keyed) ==
    [n |-> n, type |-> type, payload |-> payload,
     ret |-> Boundary(outcome),      \* what process_event gave its caller
     escaped |-> outcome = Raised,   \* an exception left the handler
     raised |-> raised,              \* something raised inside the handler
     calls |-> calls,                \* collaborator calls made, in order
     fetched |-> fetched,            \* get_config returned
     cfg |-> cfg,                    \* what it returned
     built |-> built,                \* the instance registered, if any
     ran |-> ran,                    \* the instance whose run() was spawned
     keyed |-> keyed]                \* lastBuilt of the payload's key before

NoPayload == [isMap |-> TRUE, orgId |-> Absent]

NoCall ==
    [n |-> 0, type |-> "none", payload |-> NoPayload, ret |-> "none",
     escaped |-> FALSE, raised |-> FALSE, calls |-> <<>>, fetched |-> FALSE,
     cfg |-> ConfigNone, built |-> NoInstance, ran |-> NoInstance,
     keyed |-> NoInstance]

KeyedFor(payload, source) ==
    IF payload.isMap /\ payload.orgId \in OrgIds
    THEN lastBuilt[Key(payload.orgId, source)] ELSE NoInstance

\* --------------------------------------------------- resume_sync_services
\* An organization document: its _key and its accountType (Absent: no such
\* field in the document).
AccountTypes == {Absent, "individual", "business", "enterprise", "admin"}
OrgDocs == [key : OrgIds, accountType : AccountTypes]

\* The integrations get_org_apps may name.
AppNames == {"CALENDAR", "DRIVE", "GMAIL", "OneDrive", "SLACK"}

\* str.lower() on the names above.
Lower(name) ==
    CASE name = "CALENDAR" -> "calendar"
      [] name = "DRIVE" -> "drive"
      [] name = "GMAIL" -> "gmail"
      [] name = "OneDrive" -> "onedrive"
      [] name = "ONEDRIVE" -> "onedrive"
      [] name = "SLACK" -> "slack"
      [] OTHER -> name

\* Sequences over S of length at most n.
SeqUpTo(S, n) == UNION {[1..k -> S] : k \in 0..n}

\* What get_all_orgs may return: up to n documents, each _key once (it is the
\* key of the document in its collection).
OrgLists(n) ==
    {orgs \in SeqUpTo(OrgDocs, n) :
        \A a, b \in DOMAIN orgs : a # b => orgs[a].key # orgs[b].key}

\* The classification if its else branch fell back to the individual
\* initializer.
ClassifyElseIndividual(org) ==
    LET accountType == GetOr(org, "accountType", "individual")
    IN IF accountType = "enterprise" \/ accountType = "business" THEN "enterprise"
       ELSE "individual"

\* org.get("accountType", INDIVIDUAL) and the if/elif/else on it: the account
\* initializer called, or "invalid" (log and continue).
Classify(org) ==
    LET accountType == GetOr(org, "accountType", "individual")
    IN IF accountType = "enterprise" \/ accountType = "business" THEN "enterprise"
       ELSE IF accountType = "individual" THEN "individual"
       ELSE "invalid"

\* The for loop over orgs from index i: organizations with an invalid account
\* type are passed over without an await.
RECURSIVE NextOrg(_, _)
NextOrg(orgs, i) ==
    IF i > Len(orgs) THEN i
    ELSE IF Classify(orgs[i]) = "invalid" THEN NextOrg(orgs, i + 1)
    ELSE i

\* The branch of the integration loop an app name takes.
AppBranch(name) ==
    IF Lower(name) = Lower("CALENDAR") THEN "calendar"
    ELSE IF Lower(name) = Lower("DRIVE") THEN "drive"
    ELSE IF Lower(name) = Lower("GMAIL") THEN "gmail"
    ELSE IF Lower(name) = Lower("ONEDRIVE") THEN "onedrive"
    ELSE "none"

\* The integration loop if the calendar branch ended it (break for continue).
NextAppCalendarBreaks(apps, j) ==
    LET stops == {m \in j..Len(apps) : AppBranch(apps[m]) # "none"}
        first == CHOOSE m \in stops : \A n \in stops : m <= n
    IN IF stops = {} THEN Len(apps) + 1
       ELSE IF AppBranch(apps[first]) = "calendar" THEN Len(apps) + 1
       ELSE first

\* The for loop over enabled_apps from index j: calendar and names no branch
\* matches are passed over without an await.
RECURSIVE NextApp(_, _)
NextApp(apps, j) ==
    IF j > Len(apps) THEN j
    ELSE IF AppBranch(apps[j]) \in {"calendar", "none"} THEN NextApp(apps, j + 1)
    ELSE j

ResumeIdle ==
    [pc |-> "idle", ret |-> "none", orgs |-> <<>>, i |-> 0, apps |-> <<>>, j |-> 0,
     drive |-> FALSE, gmail |-> FALSE, processor |-> "none", built |-> 0,
     failure |-> "none",
     noUsers |-> {}]    \* the organizations get_users returned no user for

\* return False from inside the loops, or the outer except: return False.
ResumeFail(r, reason) ==
    [r EXCEPT !.pc = "done", !.ret = RetFalse, !.failure = reason]

\* The top of the org loop at index i: the first await of the iteration, or
\* the end of the loop and return True.
OrgLoop(r, i) ==
    LET n == NextOrg(r.orgs, i)
    IN IF n > Len(r.orgs)
       THEN [r EXCEPT !.pc = "done", !.ret = RetTrue, !.i = n]
       ELSE [r EXCEPT !.pc = "account_init", !.i = n]

\* The tasks the code after the integration loop spawns for the org.
Launch(org_id, drive, gmail) ==
    (IF drive THEN <<Task("drive_initial_sync", "resume", org_id, NoInstance)>> ELSE <<>>)
    \o (IF gmail THEN <<Task("gmail_initial_sync", "resume", org_id, NoInstance)>> ELSE <<>>)

\* The integration loop at index j: the first await of the next integration
\* that has one, or the end of the loop, the launch of the collected services
\* and the next organization.
AppLoop(r, j, spawned) ==
    LET n == NextApp(r.apps, j)
    IN IF n > Len(r.apps)
       THEN [rs |-> OrgLoop([r EXCEPT !.apps = <<>>, !.j = 0,
                                      !.drive = FALSE, !.gmail = FALSE], r.i + 1),
             tasks |-> spawned \o Launch(r.orgs[r.i].key, r.drive, r.gmail)]
       ELSE [rs |-> [r EXCEPT !.j = n,
                              !.pc = CASE AppBranch(r.apps[n]) = "drive" -> "drive_initialize"
                                       [] AppBranch(r.apps[n]) = "gmail" -> "gmail_initialize"
                                       [] OTHER -> "od_arango_service"],
             tasks |-> spawned]

\* The onedrive branch from the return of get_config to the end of the
\* branch: "ok" and the connector built, or the reason for return False.
OneDriveAfterConfig(id, org, processor, getConfigRaises, cfg, constructRaises) ==
    IF getConfigRaises THEN [ret |-> "get_config", inst |-> NoInstance]
    ELSE IF ConfigFalsy(cfg) THEN [ret |-> "credentials_absent", inst |-> NoInstance]
    ELSE IF ~AllCredentials(cfg, OneDrive) THEN [ret |-> "credentials_incomplete", inst |-> NoInstance]
    ELSE IF constructRaises THEN [ret |-> "construct", inst |-> NoInstance]
    ELSE [ret |-> "ok",
          inst |-> MakeConnector(id, "resume", OneDrive, org, processor,
                                 MakeCredentials(cfg, OneDrive))]

resumeFrame == <<slot, inflight, nDispatched, last, lc>>

\* resume_sync_services is called: up to `await app_container.arango_service()`.
ResumeStart ==
    /\ lc.resumeLaunched > 0
    /\ rs.pc = "idle"
    /\ rs' = [rs EXCEPT !.pc = "arango_service"]
    /\ UNCHANGED <<odSlot, tasks, lastBuilt, resumeFrame>>

\* arango_service() returns or raises; then `await get_all_orgs(active=True)`.
ResumeArangoReturns(raises) ==
    /\ rs.pc = "arango_service"
    /\ rs' = IF raises THEN ResumeFail(rs, "arango_service")
             ELSE [rs EXCEPT !.pc = "get_all_orgs"]
    /\ UNCHANGED <<odSlot, tasks, lastBuilt, resumeFrame>>

\* The return of get_all_orgs if an empty list were treated as a failure.
ResumeOrgsReturnEmptyFails(raises, orgs) ==
    /\ rs.pc = "get_all_orgs"
    /\ rs' = IF raises THEN ResumeFail(rs, "get_all_orgs")
             ELSE IF orgs = <<>> THEN ResumeFail(rs, "no_orgs")
             ELSE OrgLoop([rs EXCEPT !.orgs = orgs], 1)
    /\ UNCHANGED <<odSlot, tasks, lastBuilt, resumeFrame>>

\* get_all_orgs returns the organizations or raises.
ResumeOrgsReturn(raises, orgs) ==
    /\ rs.pc = "get_all_orgs"
    /\ rs' = IF raises THEN ResumeFail(rs, "get_all_orgs")
             ELSE IF orgs = <<>> THEN [rs EXCEPT !.pc = "done", !.ret = RetTrue]
             ELSE OrgLoop([rs EXCEPT !.orgs = orgs], 1)
    /\ UNCHANGED <<odSlot, tasks, lastBuilt, resumeFrame>>

\* initialize_*_google_account_services_fn returns or raises; then
\* `await get_users(org_id, active=True)`.
ResumeAccountInitReturns(raises) ==
    /\ rs.pc = "account_init"
    /\ rs' = IF raises THEN ResumeFail(rs, "account_init")
             ELSE [rs EXCEPT !.pc = "get_users"]
    /\ UNCHANGED <<odSlot, tasks, lastBuilt, resumeFrame>>

\* The return of get_users without the `if not users: continue`.
ResumeUsersReturnUnchecked(raises, nUsers) ==
    /\ rs.pc = "get_users"
    /\ rs' = IF raises THEN ResumeFail(rs, "get_users")
             ELSE IF nUsers = 0
             THEN [rs EXCEPT !.pc = "get_org_apps",
                             !.noUsers = @ \cup {rs.orgs[rs.i].key}]
             ELSE [rs EXCEPT !.pc = "get_org_apps"]
    /\ UNCHANGED <<odSlot, tasks, lastBuilt, resumeFrame>>

\* get_users returns (nUsers users) or raises; then `await get_org_apps`.
ResumeUsersReturn(raises, nUsers) ==
    /\ rs.pc = "get_users"
    /\ rs' = IF raises THEN ResumeFail(rs, "get_users")
             ELSE IF nUsers = 0
             THEN OrgLoop([rs EXCEPT !.noUsers = @ \cup {rs.orgs[rs.i].key}], rs.i + 1)
             ELSE [rs EXCEPT !.pc = "get_org_apps"]
    /\ UNCHANGED <<odSlot, tasks, lastBuilt, resumeFrame>>

\* get_org_apps returns the enabled apps or raises; the integration loop
\* starts.
ResumeAppsReturn(raises, apps) ==
    /\ rs.pc = "get_org_apps"
    /\ LET next == AppLoop([rs EXCEPT !.apps = apps, !.drive = FALSE, !.gmail = FALSE],
                           1, tasks)
       IN IF raises
          THEN rs' = ResumeFail(rs, "get_org_apps") /\ tasks' = tasks
          ELSE rs' = next.rs /\ tasks' = next.tasks
    /\ UNCHANGED <<odSlot, lastBuilt, resumeFrame>>

\* drive_sync_service.initialize / gmail_sync_service.initialize returns or
\* raises; the service is kept for the launch after the loop.
ResumeServiceInitReturns(raises) ==
    /\ rs.pc \in {"drive_initialize", "gmail_initialize"}
    /\ LET kept == IF rs.pc = "drive_initialize"
                   THEN [rs EXCEPT !.drive = TRUE] ELSE [rs EXCEPT !.gmail = TRUE]
           next == AppLoop(kept, rs.j + 1, tasks)
       IN IF raises
          THEN rs' = ResumeFail(rs, rs.pc) /\ tasks' = tasks
          ELSE rs' = next.rs /\ tasks' = next.tasks
    /\ UNCHANGED <<odSlot, lastBuilt, resumeFrame>>

\* onedrive branch: arango_service() returns or raises; then
\* `await data_entities_processor.initialize()`.
ResumeOneDriveArangoReturns(raises) ==
    /\ rs.pc = "od_arango_service"
    /\ rs' = IF raises THEN ResumeFail(rs, "od_arango_service")
             ELSE [rs EXCEPT !.pc = "od_initialize", !.processor = "constructed"]
    /\ UNCHANGED <<odSlot, tasks, lastBuilt, resumeFrame>>

\* onedrive branch: initialize() returns or raises; then `await get_config`.
ResumeOneDriveProcessorReturns(raises) ==
    /\ rs.pc = "od_initialize"
    /\ rs' = IF raises THEN ResumeFail(rs, "od_initialize")
             ELSE [rs EXCEPT !.pc = "od_get_config", !.processor = "initialized"]
    /\ UNCHANGED <<odSlot, tasks, lastBuilt, resumeFrame>>

\* onedrive branch: get_config returns or raises; validation, construction,
\* override, create_task(run()), and the rest of the integration loop.
ResumeOneDriveConfigReturns(getConfigRaises, cfg, constructRaises) ==
    /\ rs.pc = "od_get_config"
    /\ LET org_id == rs.orgs[rs.i].key
           r == OneDriveAfterConfig(rs.built + 1, org_id, rs.processor,
                                    getConfigRaises, cfg, constructRaises)
           next == AppLoop([rs EXCEPT !.built = @ + 1, !.processor = "none"], rs.j + 1,
                           Append(tasks, Task("run", "resume", org_id, r.inst)))
       IN IF r.ret = "ok"
          THEN /\ rs' = next.rs
               /\ tasks' = next.tasks
               /\ odSlot' = Override(odSlot, r.inst)
               /\ lastBuilt' = [lastBuilt EXCEPT ![Key(org_id, OneDrive)] = r.inst]
          ELSE /\ rs' = ResumeFail(rs, r.ret)
               /\ UNCHANGED <<tasks, odSlot, lastBuilt>>
    /\ UNCHANGED resumeFrame

\* The awaits resume makes while it works on one organization.
OrgAwaits ==
    {"account_init", "get_users", "get_org_apps", "drive_initialize",
     "gmail_initialize", "od_arango_service", "od_initialize", "od_get_config"}

\* The external call resume is suspended at never returns.
ResumeCallStalls ==
    /\ rs.pc \in OrgAwaits
    /\ rs' = [rs EXCEPT !.pc = "stalled"]
    /\ UNCHANGED <<odSlot, tasks, lastBuilt, resumeFrame>>

ResumeStep(maxOrgs, maxApps) ==
    \/ ResumeStart
    \/ \E b \in BOOLEAN : ResumeArangoReturns(b)
    \/ \E b \in BOOLEAN, orgs \in OrgLists(maxOrgs) : ResumeOrgsReturn(b, orgs)
    \/ \E b \in BOOLEAN : ResumeAccountInitReturns(b)
    \/ \E b \in BOOLEAN, n \in 0..1 : ResumeUsersReturn(b, n)
    \/ \E b \in BOOLEAN, apps \in SeqUpTo(AppNames, maxApps) : ResumeAppsReturn(b, apps)
    \/ \E b \in BOOLEAN : ResumeServiceInitReturns(b)
    \/ \E b \in BOOLEAN : ResumeOneDriveArangoReturns(b)
    \/ \E b \in BOOLEAN : ResumeOneDriveProcessorReturns(b)
    \/ \E b \in BOOLEAN, cfg \in ConfigChoices, c \in BOOLEAN :
           ResumeOneDriveConfigReturns(b, cfg, c)


\* ---------------------------------------------------- messaging lifecycle
\* The consumers start_kafka_consumers starts, in its order.
ConsumerNames == <<"entity", "sync">>

Consumers == {ConsumerNames[k] : k \in DOMAIN ConsumerNames}

\* lifespan's except around start_messaging_producer, if it only logged.
OnProducerErrorLogged == "continue"

\* lifespan's except around start_messaging_producer: log, then `raise`.
OnProducerError == "raise"

\* lifespan's except around start_kafka_consumers, if it only logged.
OnConsumersErrorLogged == "continue"

\* lifespan's except around start_kafka_consumers: log, then `raise`.
OnConsumersError == "raise"

\* resume_sync_services awaited by lifespan instead of given to create_task.
ResumeAwaited == FALSE

\* asyncio.create_task(resume_sync_services(app_container)): lifespan does not
\* await the task.
ResumeDetached == TRUE

\* start_kafka_consumers' except block without its cleanup loop.
CleanupNothing(started) == <<>>

\* The consumers the except block of start_kafka_consumers stops: those
\* appended to its local list, in order.
CleanupList(started) == started

\* stop_kafka_consumers' loop without the try/except around consumer.stop().
OnStopErrorRaise == "raise"

\* stop_kafka_consumers' try/except around each consumer.stop(): log, go on.
OnStopError == "continue"

\* What a consumer is after its stop() raised: it failed to stop, or it
\* stopped and failed afterwards.
StopFailureLeaves == {"running", "stopped"}

\* What the producer is after its cleanup() raised.
CleanupFailureLeaves == {"initialized", "released"}

\* stop_messaging_producer's `if messaging_producer:` on the attribute it read.
ProducerTruthy(attr) == attr

\* The container's messaging_producer attribute after stop_messaging_producer:
\* nothing assigns it.
AttrAfterCleanup(attr) == attr

\* One entry of the record of calls made on the producer, the consumers and
\* the task factory.
Call(op, who, outcome) == <<op, who, outcome>>

Outcome(raises) == IF raises THEN "raise" ELSE "ok"

\* Before lifespan is entered: nothing created.
LcUnstarted ==
    [pc |-> "unstarted",
     producer |-> "none",         \* none, initialized, released
     producerAttr |-> FALSE,      \* container.messaging_producer is set
     consumer |-> [c \in Consumers |-> "none"],   \* none, running, stopped
     cur |-> 0,                   \* the consumer start_kafka_consumers is at
     started |-> <<>>,            \* start_kafka_consumers' local list
     registered |-> <<>>,         \* container.kafka_consumers
     stopping |-> <<>>,           \* the list a stop loop iterates over
     idx |-> 0,                   \* its position
     resumeLaunched |-> 0,        \* resume tasks created
     handled |-> 0,               \* message handler runs so far
     shutdowns |-> 0,             \* calls of shutdown_container_resources
     shutdownRet |-> "none",      \* how the last one ended
     failedAt |-> "none",         \* the startup stage whose error was raised
     initialized |-> FALSE,       \* get_initialized_container._initialized is set
     initRuns |-> 0,              \* calls of initialize_container
     wireRuns |-> 0,              \* calls of container.wire
     dep |-> [q \in 1..MaxDependencyCalls |-> "idle"],
                                  \* each per-request call of the dependency:
                                  \* idle, initialize_container, returned, raised
     log |-> <<>>]

\* lifespan at its `yield` after a startup in which nothing failed.
LcRunning ==
    [LcUnstarted EXCEPT
         !.pc = "ready",
         !.producer = "initialized",
         !.producerAttr = TRUE,
         !.consumer = [c \in Consumers |-> "running"],
         !.cur = Len(ConsumerNames),
         !.started = ConsumerNames,
         !.registered = ConsumerNames,
         !.resumeLaunched = 1,
         !.initialized = TRUE,
         !.initRuns = 1,
         !.wireRuns = 1,
         !.log = <<Call("initialize", "producer", "ok"),
                   Call("start", "entity", "ok"),
                   Call("start", "sync", "ok"),
                   Call("create_task", "resume", "ok")>>]

\* An exception leaves lifespan: the application does not start.
LcFail(l, at) == [l EXCEPT !.pc = "failed", !.failedAt = at]

\* lifespan enters start_kafka_consumers, up to its first await.
ToConsumers(l) == [l EXCEPT !.pc = "consumer_config", !.cur = 1]

\* start_messaging_producer re-raised into lifespan's except.
AfterProducerFails(l) ==
    IF OnProducerError = "raise" THEN LcFail(l, "producer")
    ELSE ToConsumers([l EXCEPT !.failedAt = "producer"])

\* start_kafka_consumers re-raised into lifespan's except.
AfterConsumersFail(l) ==
    IF OnConsumersError = "raise" THEN LcFail(l, "consumers")
    ELSE [l EXCEPT !.pc = "consumers_started", !.failedAt = "consumers"]

\* The except block of start_kafka_consumers: stop what was started, re-raise.
BeginCleanup(l) ==
    LET list == CleanupList(l.started)
    IN IF list = <<>> THEN AfterConsumersFail(l)
       ELSE [l EXCEPT !.pc = "cleanup_stop", !.stopping = list, !.idx = 1]

\* consumer.stop() returned or raised.
AfterStop(l, c, raises, leaves) ==
    [l EXCEPT !.consumer[c] = IF raises THEN leaves ELSE "stopped",
              !.log = Append(l.log, Call("stop", c, Outcome(raises)))]

\* stop_messaging_producer, up to its await of cleanup() or to its return.
ToProducerStop(l) ==
    IF ProducerTruthy(l.producerAttr) THEN [l EXCEPT !.pc = "producer_cleanup"]
    ELSE [l EXCEPT !.pc = "stopped", !.shutdownRet = "returned"]

\* stop_kafka_consumers after its loop: clear the list; then
\* shutdown_container_resources calls stop_messaging_producer.
AfterConsumersStopped(l) ==
    ToProducerStop([l EXCEPT !.registered = <<>>])

\* shutdown_container_resources is called: stop_kafka_consumers up to its
\* first await.
ShutdownEnter(l) ==
    LET m == [l EXCEPT !.shutdowns = l.shutdowns + 1, !.shutdownRet = "none"]
    IN IF l.registered = <<>> THEN AfterConsumersStopped(m)
       ELSE [m EXCEPT !.pc = "stop_consumer", !.stopping = l.registered, !.idx = 1]

lcFrame == <<slot, odSlot, tasks, inflight, nDispatched, last, lastBuilt>>

\* `if not hasattr(get_initialized_container, "_initialized")`.
NeedsInitialization(l) == ~l.initialized

\* get_initialized_container up to `await initialize_container(container)`.
EnterInitialization(l) == [l EXCEPT !.initRuns = l.initRuns + 1]

\* After the await: container.wire(...), then the attribute is set.
FinishInitialization(l) ==
    [l EXCEPT !.wireRuns = l.wireRuns + 1, !.initialized = TRUE]

\* lifespan is entered: get_initialized_container up to
\* `await initialize_container(container)`, or, the attribute being set, through
\* to `await arango_service()`.
LifespanEnter ==
    /\ lc.pc = "unstarted"
    /\ lc' = IF NeedsInitialization(lc)
             THEN [EnterInitialization(lc) EXCEPT !.pc = "initialize_container"]
             ELSE [lc EXCEPT !.pc = "arango_service"]
    /\ UNCHANGED <<lcFrame, rs>>

\* initialize_container returns or raises; then the wiring, the attribute and
\* `await arango_service()`.
ContainerReturns(raises) ==
    /\ lc.pc = "initialize_container"
    /\ lc' = IF raises THEN LcFail(lc, "container")
             ELSE [FinishInitialization(lc) EXCEPT !.pc = "arango_service"]
    /\ UNCHANGED <<lcFrame, rs>>

\* A request resolves the application-level dependency: the call returns the
\* container at once when the attribute is set, and is suspended at
\* `await initialize_container(container)` otherwise.
DependencyEnter(q) ==
    /\ lc.dep[q] = "idle"
    /\ lc' = IF NeedsInitialization(lc)
             THEN [EnterInitialization(lc) EXCEPT !.dep[q] = "initialize_container"]
             ELSE [lc EXCEPT !.dep[q] = "returned"]
    /\ UNCHANGED <<lcFrame, rs>>

\* initialize_container returns to, or raises into, a request's call.
DependencyContainerReturns(q, raises) ==
    /\ lc.dep[q] = "initialize_container"
    /\ lc' = IF raises THEN [lc EXCEPT !.dep[q] = "raised"]
             ELSE [FinishInitialization(lc) EXCEPT !.dep[q] = "returned"]
    /\ UNCHANGED <<lcFrame, rs>>

\* arango_service() returns or raises; then start_messaging_producer up to
\* `await KafkaUtils.create_producer_config`.
ArangoReturns(raises) ==
    /\ lc.pc = "arango_service"
    /\ lc' = IF raises THEN LcFail(lc, "arango_service")
             ELSE [lc EXCEPT !.pc = "producer_config"]
    /\ UNCHANGED <<lcFrame, rs>>

\* create_producer_config returns or raises, create_producer returns or
\* raises; then `await messaging_producer.initialize()`.
ProducerConfigReturns(raises) ==
    /\ lc.pc = "producer_config"
    /\ lc' = IF raises THEN AfterProducerFails(lc)
             ELSE [lc EXCEPT !.pc = "producer_initialize"]
    /\ UNCHANGED <<lcFrame, rs>>

\* initialize() returns: the producer is attached to the container and
\* lifespan goes on to start_kafka_consumers.  It raises: nothing is attached.
ProducerInitializeReturns(raises) ==
    /\ lc.pc = "producer_initialize"
    /\ LET l == [lc EXCEPT !.log = Append(lc.log,
                                 Call("initialize", "producer", Outcome(raises)))]
       IN lc' = IF raises THEN AfterProducerFails(l)
                ELSE ToConsumers([l EXCEPT !.producer = "initialized",
                                           !.producerAttr = TRUE])
    /\ UNCHANGED <<lcFrame, rs>>

\* The consumer's config (and create_consumer) returns or raises; then the
\* await of its message handler.
ConsumerConfigReturns(raises) ==
    /\ lc.pc = "consumer_config"
    /\ lc' = IF raises THEN BeginCleanup(lc)
             ELSE [lc EXCEPT !.pc = "consumer_handler"]
    /\ UNCHANGED <<lcFrame, rs>>

\* The message handler is created or that raises; then `await consumer.start`.
ConsumerHandlerReturns(raises) ==
    /\ lc.pc = "consumer_handler"
    /\ lc' = IF raises THEN BeginCleanup(lc)
             ELSE [lc EXCEPT !.pc = "consumer_start"]
    /\ UNCHANGED <<lcFrame, rs>>

\* consumer.start(handler) returns: the consumer runs and is appended to the
\* local list; after the last one the list is returned.  It raises: cleanup.
ConsumerStartReturns(raises) ==
    /\ lc.pc = "consumer_start"
    /\ LET c == ConsumerNames[lc.cur]
           l == [lc EXCEPT !.log = Append(lc.log, Call("start", c, Outcome(raises)))]
           m == [l EXCEPT !.consumer[c] = "running", !.started = Append(l.started, c)]
       IN lc' = IF raises THEN BeginCleanup(l)
                ELSE IF lc.cur < Len(ConsumerNames)
                THEN [m EXCEPT !.pc = "consumer_config", !.cur = lc.cur + 1]
                ELSE [m EXCEPT !.pc = "consumers_returned"]
    /\ UNCHANGED <<lcFrame, rs>>

\* lifespan after start_kafka_consumers returned:
\* `app_container.kafka_consumers = consumers`.
ConsumersRegistered ==
    /\ lc.pc = "consumers_returned"
    /\ lc' = [lc EXCEPT !.pc = "consumers_started", !.registered = lc.started]
    /\ UNCHANGED <<lcFrame, rs>>

\* A consumer.stop() of the cleanup loop returns or raises; after the last
\* one the error is re-raised.
CleanupStopReturns(raises, leaves) ==
    /\ lc.pc = "cleanup_stop"
    /\ LET l == AfterStop(lc, lc.stopping[lc.idx], raises, leaves)
       IN lc' = IF lc.idx < Len(lc.stopping) THEN [l EXCEPT !.idx = lc.idx + 1]
                ELSE AfterConsumersFail(l)
    /\ UNCHANGED <<lcFrame, rs>>

\* asyncio.create_task(resume_sync_services(app_container)), then `yield`.
LaunchResume ==
    /\ lc.pc = "consumers_started"
    /\ lc' = [lc EXCEPT !.resumeLaunched = lc.resumeLaunched + 1,
                        !.log = Append(lc.log, Call("create_task", "resume", "ok")),
                        !.pc = IF ResumeDetached THEN "ready" ELSE "resume_wait"]
    /\ UNCHANGED <<lcFrame, rs>>

\* The server exits: lifespan resumes after its `yield` and calls
\* shutdown_container_resources.
ShutdownBegin ==
    /\ lc.pc = "ready"
    /\ lc' = ShutdownEnter(lc)
    /\ UNCHANGED <<lcFrame, rs>>

\* A consumer.stop() of stop_kafka_consumers returns or raises.
ShutdownStopReturns(raises, leaves) ==
    /\ lc.pc = "stop_consumer"
    /\ LET l == AfterStop(lc, lc.stopping[lc.idx], raises, leaves)
       IN lc' = IF raises /\ OnStopError = "raise"
                THEN [l EXCEPT !.pc = "stopped", !.shutdownRet = "returned"]
                ELSE IF lc.idx < Len(lc.stopping) THEN [l EXCEPT !.idx = lc.idx + 1]
                ELSE AfterConsumersStopped(l)
    /\ UNCHANGED <<lcFrame, rs>>

\* messaging_producer.cleanup() returns or raises; stop_messaging_producer
\* logs either and shutdown_container_resources returns.
ProducerCleanupReturns(raises, leaves) ==
    /\ lc.pc = "producer_cleanup"
    /\ lc' = [lc EXCEPT !.producer = IF raises THEN leaves ELSE "released",
                        !.producerAttr = AttrAfterCleanup(lc.producerAttr),
                        !.log = Append(lc.log, Call("cleanup", "producer", Outcome(raises))),
                        !.pc = "stopped",
                        !.shutdownRet = "returned"]
    /\ UNCHANGED <<lcFrame, rs>>

\* shutdown_container_resources is called again after it returned.
ShutdownAgain ==
    /\ lc.pc = "stopped"
    /\ lc.shutdowns < MaxShutdownCalls
    /\ lc' = ShutdownEnter(lc)
    /\ UNCHANGED <<lcFrame, rs>>

\* A running consumer hands a message to its handler.
HandlerRuns(c) ==
    /\ lc.consumer[c] = "running"
    /\ lc.handled < MaxHandlerRuns
    /\ lc' = [lc EXCEPT !.handled = lc.handled + 1,
                        !.log = Append(lc.log, Call("handle", c, "ok"))]
    /\ UNCHANGED <<lcFrame, rs>>

\* lifespan from its entry to the end of shutdown, the consumers' handlers,
\* and the resume task (which finds no active organization).
LifecycleNext ==
    \/ LifespanEnter
    \/ \E b \in BOOLEAN : ContainerReturns(b)
    \/ \E b \in BOOLEAN : ArangoReturns(b)
    \/ \E b \in BOOLEAN : ProducerConfigReturns(b)
    \/ \E b \in BOOLEAN : ProducerInitializeReturns(b)
    \/ \E b \in BOOLEAN : ConsumerConfigReturns(b)
    \/ \E b \in BOOLEAN : ConsumerHandlerReturns(b)
    \/ \E b \in BOOLEAN : ConsumerStartReturns(b)
    \/ ConsumersRegistered
    \/ \E b \in BOOLEAN, s \in StopFailureLeaves : CleanupStopReturns(b, s)
    \/ LaunchResume
    \/ ShutdownBegin
    \/ \E b \in BOOLEAN, s \in StopFailureLeaves : ShutdownStopReturns(b, s)
    \/ \E b \in BOOLEAN, s \in CleanupFailureLeaves : ProducerCleanupReturns(b, s)
    \/ \E c \in Consumers : HandlerRuns(c)
    \/ ResumeStart
    \/ \E b \in BOOLEAN : ResumeArangoReturns(b)
    \/ \E b \in BOOLEAN : ResumeOrgsReturn(b, <<>>)

\* The calls of get_initialized_container: lifespan's and one per request, up
\* to MaxDependencyCalls requests, each suspended only at its await.
ContainerNext ==
    \/ LifespanEnter
    \/ \E b \in BOOLEAN : ContainerReturns(b)
    \/ \E b \in BOOLEAN : ArangoReturns(b)
    \/ \E q \in 1..MaxDependencyCalls : DependencyEnter(q)
    \/ \E q \in 1..MaxDependencyCalls, b \in BOOLEAN : DependencyContainerReturns(q, b)

\* shutdown_container_resources called up to MaxShutdownCalls times on the
\* started service.
ShutdownNext ==
    \/ ShutdownBegin
    \/ ShutdownAgain
    \/ \E b \in BOOLEAN, s \in StopFailureLeaves : ShutdownStopReturns(b, s)
    \/ \E b \in BOOLEAN, s \in CleanupFailureLeaves : ProducerCleanupReturns(b, s)

\* Module load: the container exists, lifespan has not been entered.
InitLifecycle ==
    /\ slot = NoInstance
    /\ odSlot = NoInstance
    /\ tasks = <<>>
    /\ inflight = {}
    /\ nDispatched = 0
    /\ last = NoCall
    /\ lastBuilt = [k \in Keys |-> NoInstance]
    /\ rs = ResumeIdle
    /\ lc = LcUnstarted

Init ==
    /\ slot = NoInstance
    /\ odSlot = NoInstance
    /\ tasks = <<>>
    /\ inflight = {}
    /\ nDispatched = 0
    /\ last = NoCall
    /\ lastBuilt = [k \in Keys |-> NoInstance]
    /\ rs = ResumeIdle
    /\ lc = LcRunning

\* process_event(event_type, payload) for an event type no branch matches.
ProcessUnknown(event_type, payload, limit) ==
    /\ nDispatched < limit
    /\ Route(event_type) = "unknown"
    /\ nDispatched' = nDispatched + 1
    /\ last' = Finished(nDispatched + 1, event_type, payload, RetFalse, FALSE, <<>>,
                        FALSE, ConfigNone, NoInstance, NoInstance,
                        KeyedFor(payload, SharePoint))
    /\ UNCHANGED <<slot, odSlot, tasks, inflight, lastBuilt, rs, lc>>

\* process_event for start and resync: _handle_sharepoint_start_sync.
ProcessStartSync(event_type, payload, read, limit) ==
    /\ nDispatched < limit
    /\ Route(event_type) = "start_sync"
    /\ LET r == StartSync(payload, slot, read)
           hasOrg == payload.isMap /\ Truthy(Get(payload, "orgId"))
           reads == IF hasOrg THEN <<"sharepoint_connector">> ELSE <<>>
           raised == ~hasOrg \/ (~IsInstance(slot) /\ read = "raise")
       IN /\ tasks' = IF IsInstance(r.run)
                      THEN Append(tasks, Task("run", event_type, payload.orgId, r.run))
                      ELSE tasks
          /\ last' = Finished(nDispatched + 1, event_type, payload, r.ret, raised,
                              reads, FALSE, ConfigNone, NoInstance, r.run,
                              KeyedFor(payload, SharePoint))
    /\ nDispatched' = nDispatched + 1
    /\ UNCHANGED <<slot, odSlot, inflight, lastBuilt, rs, lc>>

\* process_event for init, up to the first await of _handle_sharepoint_init.
InitBegin(event_type, payload, setupRaises, limit) ==
    /\ nDispatched < limit
    /\ Cardinality(inflight) < MaxInFlight
    /\ Route(event_type) = "init"
    /\ nDispatched' = nDispatched + 1
    /\ LET r == InitEntry(payload, setupRaises)
           raised == ~payload.isMap \/
                     (Truthy(Get(payload, "orgId")) /\ setupRaises)
       IN IF r = "await"
          THEN /\ inflight' = inflight \cup
                      {[n |-> nDispatched + 1, type |-> event_type,
                        payload |-> payload, pc |-> "initialize",
                        processor |-> "constructed"]}
               /\ last' = last
          ELSE /\ inflight' = inflight
               /\ last' = Finished(nDispatched + 1, event_type, payload, r, raised,
                                   <<>>, FALSE, ConfigNone, NoInstance, NoInstance,
                                   KeyedFor(payload, SharePoint))
    /\ UNCHANGED <<slot, odSlot, tasks, lastBuilt, rs, lc>>

\* The suspended init handler of event n, if there is one.
Handler(n) == {h \in inflight : h.n = n}

\* data_entities_processor.initialize() returns or raises.
InitProcessorReturns(n, initializeRaises) ==
    \E h \in Handler(n) :
        /\ h.pc = "initialize"
        /\ LET r == InitAfterProcessor(initializeRaises)
           IN IF r = "await"
              THEN /\ inflight' = (inflight \ {h}) \cup {[h EXCEPT !.pc = "get_config", !.processor = "initialized"]}
                   /\ last' = last
              ELSE /\ inflight' = inflight \ {h}
                   /\ last' = Finished(h.n, h.type, h.payload, r, TRUE,
                                       <<"initialize">>, FALSE, ConfigNone,
                                       NoInstance, NoInstance,
                                       KeyedFor(h.payload, SharePoint))
        /\ UNCHANGED <<slot, odSlot, tasks, nDispatched, lastBuilt, rs, lc>>

\* The end of the init handler if registering the new instance also cancelled
\* the tasks running on the instance it supersedes.
InitConfigReturnsCancelling(n, getConfigRaises, cfg, constructRaises) ==
    \E h \in Handler(n) :
        /\ h.pc = "get_config"
        /\ LET r == InitAfterConfig(h.n, h.payload.orgId, h.processor,
                                    getConfigRaises, cfg, constructRaises)
               key == Key(h.payload.orgId, SharePoint)
           IN /\ slot' = IF IsInstance(r.inst) THEN Override(slot, r.inst) ELSE slot
              /\ tasks' = IF IsInstance(r.inst)
                          THEN SelectSeq(tasks, LAMBDA t : t.conn # slot)
                          ELSE tasks
              /\ lastBuilt' = IF IsInstance(r.inst) /\ key \in Keys
                              THEN [lastBuilt EXCEPT ![key] = r.inst] ELSE lastBuilt
              /\ last' = Finished(h.n, h.type, h.payload, r.ret, getConfigRaises,
                                  <<"initialize", "get_config">>,
                                  ~getConfigRaises,
                                  IF getConfigRaises THEN ConfigNone ELSE cfg,
                                  r.inst, NoInstance, KeyedFor(h.payload, SharePoint))
        /\ inflight' = inflight \ {h}
        /\ UNCHANGED <<odSlot, nDispatched, rs, lc>>

\* config_service.get_config returns or raises; the handler validates, builds
\* the connector, overrides the provider and returns.
InitConfigReturns(n, getConfigRaises, cfg, constructRaises) ==
    \E h \in Handler(n) :
        /\ h.pc = "get_config"
        /\ LET r == InitAfterConfig(h.n, h.payload.orgId, h.processor,
                                    getConfigRaises, cfg, constructRaises)
               key == Key(h.payload.orgId, SharePoint)
               raised == getConfigRaises \/
                         (~ConfigFalsy(cfg) /\ AllCredentials(cfg, SharePoint)
                          /\ constructRaises)
           IN /\ slot' = IF IsInstance(r.inst) THEN Override(slot, r.inst) ELSE slot
              /\ lastBuilt' = IF IsInstance(r.inst) /\ key \in Keys
                              THEN [lastBuilt EXCEPT ![key] = r.inst] ELSE lastBuilt
              /\ last' = Finished(h.n, h.type, h.payload, r.ret, raised,
                                  <<"initialize", "get_config">>,
                                  ~getConfigRaises,
                                  IF getConfigRaises THEN ConfigNone ELSE cfg,
                                  r.inst, NoInstance, KeyedFor(h.payload, SharePoint))
        /\ inflight' = inflight \ {h}
        /\ UNCHANGED <<odSlot, tasks, nDispatched, rs, lc>>

\* The consumer hands process_event at most maxEvents events; handlers that
\* are suspended resume in any order.
EventStep(maxEvents) ==
    \/ \E e \in EventTypes, p \in Payloads : ProcessUnknown(e, p, maxEvents)
    \/ \E e \in EventTypes, p \in Payloads, read \in UnregisteredRead :
           ProcessStartSync(e, p, read, maxEvents)
    \/ \E e \in EventTypes, p \in Payloads, b \in BOOLEAN :
           InitBegin(e, p, b, maxEvents)
    \/ \E n \in 1..maxEvents, b \in BOOLEAN : InitProcessorReturns(n, b)
    \/ \E n \in 1..maxEvents, b \in BOOLEAN, cfg \in ConfigChoices, c \in BOOLEAN :
           InitConfigReturns(n, b, cfg, c)

\* The coroutine of the k-th spawned task returns or raises.
TaskEnds(k, how) ==
    /\ k \in DOMAIN tasks
    /\ tasks[k].state = "running"
    /\ tasks' = OnTaskEnd(tasks, k, how)
    /\ UNCHANGED <<slot, odSlot, inflight, nDispatched, last, lastBuilt, rs, lc>>

\* The event handlers, and the tasks they spawned ending by themselves.
TaskNext ==
    \/ EventStep(TaskMaxEvents)
    \/ \E k \in 1..TaskMaxEvents, how \in {"finished", "failed"} : TaskEnds(k, how)

\* The started service until the end of shutdown: the handlers, the tasks
\* they spawned, and lifespan after its yield.
ServiceShutdownNext ==
    \/ EventStep(ServiceMaxEvents)
    \/ \E k \in 1..ServiceMaxEvents, how \in {"finished", "failed"} : TaskEnds(k, how)
    \/ ShutdownBegin
    \/ \E b \in BOOLEAN, s \in StopFailureLeaves : ShutdownStopReturns(b, s)
    \/ \E b \in BOOLEAN, s \in CleanupFailureLeaves : ProducerCleanupReturns(b, s)

\* resume_sync_services with calls that may never return.
ResumeStallNext ==
    \/ ResumeStep(MaxOrgs, ServiceMaxApps)
    \/ ResumeCallStalls

\* resume_sync_services over several organizations with short integration
\* lists.
ResumeOrgsNext == ResumeStep(MaxOrgs, ServiceMaxApps)

\* The resume task created at startup running while lifespan, past its
\* yield, shuts the service down: nothing in shutdown waits for the task.
ResumeShutdownNext ==
    \/ ResumeStep(ServiceMaxOrgs, ServiceMaxApps)
    \/ ShutdownBegin
    \/ \E b \in BOOLEAN, s \in StopFailureLeaves : ShutdownStopReturns(b, s)
    \/ \E b \in BOOLEAN, s \in CleanupFailureLeaves : ProducerCleanupReturns(b, s)

\* What get_all_orgs returns when exactly one organization is active.
SingleOrgLists == {<<org>> : org \in OrgDocs}

\* resume_sync_services for one active organization: its integration loop
\* over lists of up to MaxApps integrations.
ResumeAppsNext ==
    \/ ResumeStart
    \/ \E b \in BOOLEAN : ResumeArangoReturns(b)
    \/ \E b \in BOOLEAN, orgs \in SingleOrgLists : ResumeOrgsReturn(b, orgs)
    \/ \E b \in BOOLEAN : ResumeAccountInitReturns(b)
    \/ \E b \in BOOLEAN, n \in 0..1 : ResumeUsersReturn(b, n)
    \/ \E b \in BOOLEAN, apps \in SeqUpTo(AppNames, MaxApps) : ResumeAppsReturn(b, apps)
    \/ \E b \in BOOLEAN : ResumeServiceInitReturns(b)
    \/ \E b \in BOOLEAN : ResumeOneDriveArangoReturns(b)
    \/ \E b \in BOOLEAN : ResumeOneDriveProcessorReturns(b)
    \/ \E b \in BOOLEAN, cfg \in ConfigChoices, c \in BOOLEAN :
           ResumeOneDriveConfigReturns(b, cfg, c)

EventNext == EventStep(MaxEvents)

vars == <<slot, odSlot, tasks, inflight, nDispatched, last, lastBuilt, rs, lc>>

ResumeNext == ResumeStep(MaxOrgs, MaxApps)

\* The service after startup: the consumers hand events to process_event
\* while the resume task runs.
Next == EventStep(ServiceMaxEvents) \/ ResumeStep(ServiceMaxOrgs, ServiceMaxApps)

SpecEvents == Init /\ [][EventNext]_vars

SpecResume == Init /\ [][ResumeNext]_vars

Spec == Init /\ [][Next]_vars

SpecLifecycle == InitLifecycle /\ [][LifecycleNext]_vars

SpecContainer == InitLifecycle /\ [][ContainerNext]_vars

SpecShutdown == Init /\ [][ShutdownNext]_vars

SpecTasks == Init /\ [][TaskNext]_vars

SpecResumeApps == Init /\ [][ResumeAppsNext]_vars

SpecResumeOrgs == Init /\ [][ResumeOrgsNext]_vars

SpecResumeShutdown == Init /\ [][ResumeShutdownNext]_vars

SpecResumeStall == Init /\ [][ResumeStallNext]_vars

SpecServiceShutdown == Init /\ [][ServiceShutdownNext]_vars

\* ------------------------------------------------------------- properties
RecognizedEvents == {InitEvent, StartEvent, ResyncEvent}

\* The field of the credentials object a configuration key is stored in.
CredentialField(k) ==
    CASE k = "tenantId" -> "tenant_id"
      [] k = "clientId" -> "client_id"
      [] k = "clientSecret" -> "client_secret"
      [] k = "sharepointDomain" -> "sharepoint_domain"

\* Every mandatory credential of the instance's source is present and non-empty.
CredentialsComplete(inst) ==
    \A k \in MandatoryFields(inst.source) :
        Truthy(inst.credentials[CredentialField(k)])

\* A connector that is whole: its processor initialized, its credentials
\* validated, its organization known.
FullyBuilt(inst) ==
    /\ IsInstance(inst)
    /\ inst.processor = "initialized"
    /\ inst.source \in {SharePoint, OneDrive}
    /\ Truthy(inst.org)
    /\ CredentialsComplete(inst)

\* What the code reads as the connector of key (org, source): the provider of
\* the source, which takes no organization.
ReadSlot(sharepoint, onedrive, key) ==
    IF key[2] = SharePoint THEN sharepoint ELSE onedrive

Done == rs.pc = "done"

\* C1: when the account initializer raises for an organization, resume still
\* goes on to the organizations after it and returns True, and the failing
\* organization has no task.
C1_ResumeIsolation ==
    (Done /\ rs.failure = "account_init") =>
        /\ rs.ret = RetTrue
        /\ rs.i > Len(rs.orgs)
        /\ \A k \in DOMAIN tasks :
               tasks[k].by = "resume" => tasks[k].org # rs.orgs[rs.i].key

\* C2: resume returns True unless fetching the organizations raised.
C2_TrueUnlessFetchRaised ==
    Done => (rs.ret = RetFalse <=> rs.failure \in {"arango_service", "get_all_orgs"})

\* C3: an init whose credentials are absent or incomplete never reaches
\* processor initialization, fails, and registers nothing.
C3_CredentialGating ==
    (/\ last.type = InitEvent
     /\ last.fetched
     /\ (ConfigFalsy(last.cfg) \/ ~AllCredentials(last.cfg, SharePoint)))
    => /\ \A k \in DOMAIN last.calls : last.calls[k] # "initialize"
       /\ last.ret = RetFalse
       /\ ~IsInstance(last.built)

\* C4 (I2): every spawned connector run task runs a connector whose mandatory
\* credentials were validated complete.
C4_SpawnedAfterValidation ==
    \A k \in DOMAIN tasks :
        tasks[k].kind = "run" =>
            /\ IsInstance(tasks[k].conn)
            /\ CredentialsComplete(tasks[k].conn)

\* C4 witness: a run task spawned by a start or resync event and a run task
\* spawned by resume, both there.
C4_Witness ==
    /\ \E k \in DOMAIN tasks :
           tasks[k].kind = "run" /\ tasks[k].by \in {StartEvent, ResyncEvent}
    /\ \E k \in DOMAIN tasks : tasks[k].kind = "run" /\ tasks[k].by = "resume"

\* C5: a start event for orgId runs the instance of the last successful init
\* for that orgId, and fails without a task when there was none.
C5_StartRunsOwnInstance ==
    (last.type = StartEvent /\ last.payload.isMap /\ last.payload.orgId \in OrgIds)
    => IF IsInstance(last.keyed)
       THEN last.ret = RetTrue /\ last.ran = last.keyed
       ELSE last.ret = RetFalse /\ ~IsInstance(last.ran)

\* C6 (P1): for a key that has been built, reading the slot for that key gives
\* the instance of the last successfully completed build for that key.
C6_SlotExclusivity ==
    \A key \in Keys :
        IsInstance(lastBuilt[key]) => ReadSlot(slot, odSlot, key) = lastBuilt[key]

\* C7: registering an instance for one key leaves what is registered for every
\* other key as it was.
C7_ReplaceOnlyOwnKey ==
    [][\A key \in Keys :
           lastBuilt'[key] # lastBuilt[key] =>
               \A other \in Keys \ {key} :
                   IsInstance(lastBuilt[other]) =>
                       ReadSlot(slot', odSlot', other) = ReadSlot(slot, odSlot, other)]_vars

\* C8: with init handlers suspended at their awaits and start handlers running
\* between them, the slot holds no instance or a whole one, and a start handler
\* has read no instance or a whole one.
C8_AtomicReplace ==
    /\ ~IsInstance(slot) \/ FullyBuilt(slot)
    /\ ~IsInstance(last.ran) \/ FullyBuilt(last.ran)

\* C8 witness: a start handler has read an instance while an init handler is
\* suspended at get_config.
C8_Witness ==
    /\ last.type = StartEvent /\ IsInstance(last.ran)
    /\ \E h \in inflight : h.pc = "get_config"

\* C9 (P3): an event of an unrecognized type returns False, changes neither the
\* slot nor the tasks nor a suspended handler, and calls no collaborator.
C9_UnknownEventIsolation ==
    [][(last'.n = nDispatched + 1 /\ last'.type \notin RecognizedEvents)
        => /\ last'.ret = RetFalse
           /\ last'.calls = <<>>
           /\ UNCHANGED <<slot, odSlot, tasks, inflight, lastBuilt>>]_vars

\* C9 witness: an unrecognized event was processed with an instance registered
\* and a task spawned.
C9_Witness ==
    /\ last.n > 0 /\ last.type \notin RecognizedEvents
    /\ IsInstance(slot)
    /\ tasks # <<>>

\* C10: process_event returns a boolean whatever raised inside the handler, and
\* False when something did.
C10_NoExceptionCrosses ==
    last.n > 0 =>
        /\ last.ret \in {RetTrue, RetFalse}
        /\ (last.raised \/ last.escaped) => last.ret = RetFalse

\* C10 witness: an exception left the init handler itself (its except block
\* raised) and process_event returned False.
C10_Witness ==
    last.type = InitEvent /\ last.escaped /\ last.ret = RetFalse

\* The payload is a dict whose orgId is missing or empty.
MissingOrgId(payload) == payload.isMap /\ ~Truthy(Get(payload, "orgId"))

\* C11: an init, start or resync event whose payload has no orgId or an empty
\* one returns False, spawns no task, leaves the slot as it was, makes no
\* collaborator call (no processor initialization, no credential fetch), and
\* its handler is never suspended at one.
C11_MissingOrgId ==
    [][/\ \A h \in inflight' : ~MissingOrgId(h.payload)
       /\ (last' # last /\ last'.type \in RecognizedEvents /\ MissingOrgId(last'.payload))
           => /\ last'.ret = RetFalse
              /\ last'.calls = <<>>
              /\ ~last'.fetched
              /\ ~IsInstance(last'.built) /\ ~IsInstance(last'.ran)
              /\ UNCHANGED <<slot, odSlot, tasks, inflight, lastBuilt>>]_vars

\* C11 witness: a start event without orgId returned False with an instance
\* registered (so a task could have been spawned).
C11_Witness ==
    /\ last.type = StartEvent /\ last.payload.isMap /\ last.payload.orgId = Absent
    /\ last.ret = RetFalse
    /\ IsInstance(slot)

\* C12: dispatching resync does to the result, the slot and the spawned tasks
\* exactly what the start handler does with that payload from that state,
\* which is also what dispatching start does.
C12_ResyncIsStart ==
    [][\A t \in {StartEvent, ResyncEvent} :
           (last'.n = nDispatched + 1 /\ last'.type = t) =>
               \E read \in UnregisteredRead :
                   LET r == StartSync(last'.payload, slot, read)
                   IN /\ last'.ret = Boundary(r.ret)
                      /\ last'.ran = r.run
                      /\ tasks' = IF IsInstance(r.run)
                                  THEN Append(tasks, Task("run", t, last'.payload.orgId, r.run))
                                  ELSE tasks
                      /\ UNCHANGED <<slot, odSlot, inflight, lastBuilt>>]_vars

\* C12 witness: a start event and then a resync event each spawned run() of
\* the same registered instance.
C12_Witness ==
    /\ last.type = ResyncEvent /\ last.ret = RetTrue
    /\ \E j, k \in DOMAIN tasks :
           /\ tasks[j].by = StartEvent /\ tasks[k].by = ResyncEvent
           /\ tasks[j].conn = tasks[k].conn /\ tasks[k].conn = slot

\* C13: no step of an init event (its dispatch, the return of
\* processor.initialize, the return of get_config with the registration of the
\* new instance) changes the spawned tasks: none is added, and a task running
\* on the superseded instance stays.
C13_InitKeepsTasks ==
    [][(\/ inflight' # inflight
        \/ slot' # slot
        \/ (last' # last /\ last'.type = InitEvent))
       => tasks' = tasks]_vars

\* C13 witness: an init has registered a new instance while a task spawned on
\* the instance it superseded is still there.
C13_Witness ==
    /\ last.type = InitEvent /\ IsInstance(last.built) /\ slot = last.built
    /\ \E k \in DOMAIN tasks :
           tasks[k].kind = "run" /\ IsInstance(tasks[k].conn) /\ tasks[k].conn # slot

\* ------------------------------------------------- lifecycle properties
\* The positions in the record of calls of the calls `op` made on `who`.
Calls(op, who) ==
    {i \in DOMAIN lc.log : lc.log[i][1] = op /\ lc.log[i][2] = who}

\* The error of start_kafka_consumers has reached lifespan.
ConsumerStartupFailed == lc.failedAt = "consumers"

\* C14 as stated: when a consumer failed to start and the error has reached
\* the caller, no consumer is running, also when a stop of the cleanup failed.
C14_NoConsumerRunsAfterFailure ==
    ConsumerStartupFailed => \A c \in Consumers : lc.consumer[c] # "running"

\* C14 amended: when a consumer failed to start and the error has reached the
\* caller, stop() has been called on every consumer started before it, after
\* its start; a consumer whose stop() returned is stopped; and a consumer that
\* did not start is not running.  One whose stop() raised may still run.
C14_CleanupAttemptsEveryStop ==
    ConsumerStartupFailed =>
        /\ \A k \in DOMAIN lc.started :
               \E i \in Calls("stop", lc.started[k]) :
                   /\ \A j \in Calls("start", lc.started[k]) : j < i
                   /\ lc.log[i][3] = "ok" => lc.consumer[lc.started[k]] = "stopped"
        /\ \A c \in Consumers :
               (\A k \in DOMAIN lc.started : lc.started[k] # c) => lc.consumer[c] = "none"

\* C14 witness: the second consumer failed to start, the stop of the first one
\* raised during the cleanup, and the error has reached the caller.
C14_Witness ==
    /\ ConsumerStartupFailed
    /\ lc.started = <<"entity">>
    /\ \E i \in Calls("start", "sync") : lc.log[i][3] = "raise"
    /\ \E i \in Calls("stop", "entity") : lc.log[i][3] = "raise"

\* lifespan is inside start_kafka_consumers, creating or starting a consumer.
StartingConsumers == lc.pc \in {"consumer_config", "consumer_handler", "consumer_start"}

\* C15: a consumer is created or started only with the producer created,
\* initialized and attached, every consumer start comes after the return of
\* producer.initialize(); and when producer startup failed the startup is
\* aborted, no consumer was ever started and resume was never launched.
C15_ProducerFirst ==
    /\ StartingConsumers => lc.producer = "initialized" /\ lc.producerAttr
    /\ \A c \in Consumers : \A i \in Calls("start", c) :
           \E j \in Calls("initialize", "producer") : j < i /\ lc.log[j][3] = "ok"
    /\ lc.failedAt = "producer" =>
           /\ lc.pc = "failed"
           /\ \A c \in Consumers : lc.consumer[c] = "none" /\ Calls("start", c) = {}
           /\ lc.resumeLaunched = 0 /\ rs = ResumeIdle

\* C15 witness: producer.initialize() raised and the error left lifespan.
C15_Witness ==
    /\ lc.failedAt = "producer"
    /\ \E i \in Calls("initialize", "producer") : lc.log[i][3] = "raise"

\* Every consumer of start_kafka_consumers has been started and nothing failed.
StartupComplete ==
    Len(lc.started) = Len(ConsumerNames) /\ lc.failedAt = "none"

\* C16 (I3): a message handler runs only when the startup of the producer and
\* of all consumers has completed and while the producer is initialized and
\* attached (not released).
C16_HandlersOnlyWhenStarted ==
    [][lc'.handled # lc.handled =>
           /\ StartupComplete
           /\ lc.producer = "initialized" /\ lc.producerAttr]_vars

\* C17: the producer's cleanup() is called only after stop() has been called
\* on every registered consumer; once shutdown is over it has returned (not
\* raised), stop() was called on every consumer and cleanup() on the producer,
\* whichever of these calls raised.
C17_ShutdownCompletes ==
    /\ \A i \in Calls("cleanup", "producer") :
           \A c \in Consumers : \E j \in Calls("stop", c) : j < i
    /\ lc.pc = "producer_cleanup" =>
           \A c \in Consumers : Calls("stop", c) # {}
    /\ lc.pc = "stopped" =>
           /\ lc.shutdownRet = "returned"
           /\ \A c \in Consumers : Calls("stop", c) # {}
           /\ Calls("cleanup", "producer") # {}
    /\ lc.shutdowns > 0 => lc.pc \in {"stop_consumer", "producer_cleanup", "stopped"}

\* C17 witness: shutdown has returned although the stop of every consumer and
\* the cleanup of the producer raised.
C17_Witness ==
    /\ lc.pc = "stopped" /\ lc.shutdownRet = "returned"
    /\ \A c \in Consumers : \E j \in Calls("stop", c) : lc.log[j][3] = "raise"
    /\ \E i \in Calls("cleanup", "producer") : lc.log[i][3] = "raise"

\* C18 (P6): when shutdown_container_resources has been called a second time,
\* no consumer has had stop() called twice and the producer has not had
\* cleanup() called twice, and the second call returns.
C18_IdempotentShutdown ==
    lc.shutdowns >= 2 =>
        /\ \A c \in Consumers : Cardinality(Calls("stop", c)) <= 1
        /\ Cardinality(Calls("cleanup", "producer")) <= 1
        /\ lc.pc = "stopped" => lc.shutdownRet = "returned"

\* The lifecycle state the handles stand for.  The code keeps no state
\* variable: ProducerStarted is the producer attached, ConsumersStarted the
\* full consumer list handed to the container, Running the resume task
\* created (lifespan at its yield), ShuttingDown and Stopped a call of shutdown
\* under way and returned.
LifecycleState(l) ==
    IF l.shutdowns > 0
    THEN IF ~(l.producerAttr /\ l.resumeLaunched > 0) THEN "Invalid"
         ELSE IF l.shutdownRet = "returned" THEN "Stopped" ELSE "ShuttingDown"
    ELSE IF l.resumeLaunched > 0
    THEN IF l.producerAttr /\ l.registered = ConsumerNames THEN "Running" ELSE "Invalid"
    ELSE IF l.registered # <<>>
    THEN IF l.producerAttr /\ l.registered = ConsumerNames THEN "ConsumersStarted"
         ELSE "Invalid"
    ELSE IF l.producerAttr THEN "ProducerStarted"
    ELSE "Unstarted"

LifecycleOrder ==
    <<"Unstarted", "ProducerStarted", "ConsumersStarted", "Running",
      "ShuttingDown", "Stopped">>

Rank(state) == CHOOSE k \in DOMAIN LifecycleOrder : LifecycleOrder[k] = state

\* C19: the lifecycle state is always one of the six, and every step leaves
\* it as it is or moves it to the next one in the order; a failed startup
\* stays where it failed.
C19_ForwardOnly ==
    [][/\ \E k \in DOMAIN LifecycleOrder : LifecycleOrder[k] = LifecycleState(lc')
       /\ \/ LifecycleState(lc') = LifecycleState(lc)
          \/ Rank(LifecycleState(lc')) = Rank(LifecycleState(lc)) + 1]_vars

\* C19 witness: the lifecycle has gone all the way to Stopped.
C19_Witness ==
    LifecycleState(lc) = "Stopped" /\ lc.pc = "stopped"

\* C20: the resume task is created at most once and exactly once by the time
\* lifespan yields; the step that creates it finds the producer initialized
\* and every consumer started with nothing failed, and ends at the yield with
\* nothing of resume run yet (lifespan does not wait for it); resume runs only
\* once created; and a startup that failed has created none.
C20_ResumeLaunchedOnceDetached ==
    [][/\ lc'.resumeLaunched <= 1
       /\ lc'.pc = "ready" => lc'.resumeLaunched = 1
       /\ lc'.pc = "failed" => lc'.resumeLaunched = 0 /\ rs' = ResumeIdle
       /\ rs' # ResumeIdle => lc'.resumeLaunched = 1
       /\ lc'.resumeLaunched # lc.resumeLaunched =>
              /\ StartupComplete
              /\ lc.producer = "initialized" /\ lc.producerAttr
              /\ lc.registered = ConsumerNames
              /\ \A c \in Consumers : lc.consumer[c] = "running"
              /\ lc'.pc = "ready"
              /\ rs = ResumeIdle /\ rs' = rs]_vars

\* C20 witness: lifespan is at its yield (the application is ready) while the
\* resume task is suspended in the middle of its run.
C20_Witness ==
    /\ lc.pc = "ready" /\ lc.resumeLaunched = 1
    /\ rs.pc \notin {"idle", "done"}

\* ---------------------------------------------------- resume properties
\* The run tasks resume spawned for the organization.
ResumeRunTasks(org) ==
    {k \in DOMAIN tasks :
        tasks[k].kind = "run" /\ tasks[k].by = "resume" /\ tasks[k].org = org}

\* C21: every organization for which resume built a onedrive connector has
\* exactly one run task, running the instance built for it, and reading the
\* slot for its (org, onedrive) key gives that instance; for each such
\* organization of the run.
C21_OneTaskAndSlotPerOrg ==
    \A org \in OrgIds :
        IsInstance(lastBuilt[Key(org, OneDrive)]) =>
            /\ \E k \in ResumeRunTasks(org) : tasks[k].conn = lastBuilt[Key(org, OneDrive)]
            /\ \A j, k \in ResumeRunTasks(org) :
                   tasks[j].conn = tasks[k].conn => j = k
            /\ ReadSlot(slot, odSlot, Key(org, OneDrive)) = lastBuilt[Key(org, OneDrive)]

\* ------------------------------------------------------ task properties
\* C22: the step that spawns a run loop is the step in which the handler
\* returns True, with the run loop still running (the handler did not wait for
\* it); and a step in which a run loop fails changes no recorded handler
\* result, no slot and no other task.
C22_DetachedSpawn ==
    [][/\ Len(tasks') > Len(tasks) =>
              /\ last'.n = nDispatched + 1 /\ last'.ret = RetTrue
              /\ Len(tasks') = Len(tasks) + 1
              /\ tasks'[Len(tasks')].conn = last'.ran
              /\ tasks'[Len(tasks')].state = "running"
       /\ \A k \in DOMAIN tasks :
              (tasks[k].state = "running" /\ tasks'[k].state = "failed") =>
                  /\ UNCHANGED <<slot, odSlot, inflight, nDispatched, last, lastBuilt>>
                  /\ Len(tasks') = Len(tasks)
                  /\ \A j \in DOMAIN tasks : j # k => tasks'[j] = tasks[j]]_vars

\* C22 witness: of two run loops spawned by handlers that returned True, one
\* has failed and the other is still running.
C22_Witness ==
    /\ last.ret = RetTrue /\ IsInstance(last.ran)
    /\ \E j, k \in DOMAIN tasks :
           /\ tasks[j].kind = "run" /\ tasks[j].state = "failed"
           /\ tasks[k].kind = "run" /\ tasks[k].state = "running"

\* C23: when shutdown returns, no task spawned before is still running
\* without a cancellation requested: each has ended or has been asked to
\* cancel.
C23_TasksCancelledAtShutdown ==
    [][(lc.pc # "stopped" /\ lc'.pc = "stopped") =>
           \A k \in DOMAIN tasks' : tasks'[k].state # "running"]_vars

\* The initial-sync tasks spawned for the organization.
InitialSyncTasks(kind, org) ==
    {k \in DOMAIN tasks :
        tasks[k].kind = kind /\ tasks[k].by = "resume" /\ tasks[k].org = org}

\* C24: when resume has ended at an organization whose onedrive credentials
\* are absent or incomplete, the initial sync of every service it had
\* initialized for that organization before has been spawned.
C24_CollectedStillLaunched ==
    (Done /\ rs.failure \in {"credentials_absent", "credentials_incomplete"}) =>
        /\ rs.drive => InitialSyncTasks("drive_initial_sync", rs.orgs[rs.i].key) # {}
        /\ rs.gmail => InitialSyncTasks("gmail_initial_sync", rs.orgs[rs.i].key) # {}

\* C25: when a call made for one organization never returns, every other
\* organization has been resumed or resume can still take a step towards it.
C25_OrgsIndependent ==
    rs.pc = "stalled" =>
        \/ \A k \in DOMAIN rs.orgs : k # rs.i => k < rs.i
        \/ ENABLED ResumeStallNext

\* The fetch of the active organizations returned, and returned none.
NoOrganizations ==
    Done /\ rs.orgs = <<>> /\ rs.failure \notin {"arango_service", "get_all_orgs"}

\* C26: when get_all_orgs returned an empty list, resume has returned True,
\* has built no connector and spawned no task, and nothing of it is left to
\* run (no further collaborator call).
C26_EmptyOrgsIsSuccess ==
    NoOrganizations =>
        /\ rs.ret = RetTrue
        /\ tasks = <<>>
        /\ rs.built = 0 /\ ~IsInstance(odSlot)
        /\ \A key \in Keys : ~IsInstance(lastBuilt[key])
        /\ ~ENABLED ResumeOrgsNext

\* C26 witness: resume has ended on an empty list of organizations.
C26_Witness ==
    NoOrganizations /\ rs.ret = RetTrue /\ rs.i = 0

\* The organization's account type is none of individual, business,
\* enterprise (a document without the field counts as individual).
UnknownClassification(org) ==
    GetOr(org, "accountType", "individual") \notin {"individual", "business", "enterprise"}

\* The organizations of the run with an unknown classification.
UnknownOrgs(r) ==
    {r.orgs[k].key : k \in {m \in DOMAIN r.orgs : UnknownClassification(r.orgs[m])}}

\* C27: resume is never suspended at a call made for an organization of
\* unknown classification and has no task and no connector for one; the org
\* loop passes over exactly those organizations, stops at the next one or at
\* the end of the list, and a run in which nothing failed returns True.
C27_UnknownClassificationSkipped ==
    [][/\ rs'.pc \in OrgAwaits => ~UnknownClassification(rs'.orgs[rs'.i])
       /\ \A k \in DOMAIN tasks' : tasks'[k].org \notin UnknownOrgs(rs')
       /\ \A org \in UnknownOrgs(rs') : ~IsInstance(lastBuilt'[Key(org, OneDrive)])
       /\ rs'.i # rs.i =>
              /\ \A m \in DOMAIN rs'.orgs :
                     (rs.i < m /\ m < rs'.i) => UnknownClassification(rs'.orgs[m])
              /\ rs'.i <= Len(rs'.orgs) =>
                     rs'.pc = "account_init" /\ ~UnknownClassification(rs'.orgs[rs'.i])
       /\ (rs'.pc = "done" /\ rs'.failure = "none") =>
              /\ rs'.ret = RetTrue
              /\ rs'.orgs # <<>> => rs'.i = Len(rs'.orgs) + 1]_vars

\* C27 witness: resume returned True on an organization of unknown
\* classification followed by one it spawned a task for.
C27_Witness ==
    /\ Done /\ rs.ret = RetTrue /\ Len(rs.orgs) = 2
    /\ UnknownClassification(rs.orgs[1]) /\ ~UnknownClassification(rs.orgs[2])
    /\ \E k \in DOMAIN tasks : tasks[k].org = rs.orgs[2].key

\* C28: resume is never suspended at a later call (integration fetch, service
\* or processor initialization, credential fetch) of an organization whose
\* get_users returned no user, and has no task and no connector for one; the
\* step in which get_users returns none records no failure, changes no task
\* and no slot, and goes on to the next organization or, after the last one,
\* to return True.
C28_NoUsersSkipped ==
    [][/\ (rs'.pc \in OrgAwaits \ {"account_init", "get_users"}) =>
              rs'.orgs[rs'.i].key \notin rs'.noUsers
       /\ \A k \in DOMAIN tasks' : tasks'[k].org \notin rs'.noUsers
       /\ \A org \in rs'.noUsers : ~IsInstance(lastBuilt'[Key(org, OneDrive)])
       /\ rs'.noUsers # rs.noUsers =>
              /\ UNCHANGED <<tasks, slot, odSlot, lastBuilt>>
              /\ rs'.built = rs.built /\ ~rs'.drive /\ ~rs'.gmail
              /\ rs'.failure = "none"
              /\ rs'.i > rs.i
              /\ \A m \in DOMAIN rs'.orgs :
                     (rs.i < m /\ m < rs'.i) => UnknownClassification(rs'.orgs[m])
              /\ IF rs'.i <= Len(rs'.orgs) THEN rs'.pc = "account_init"
                 ELSE rs'.pc = "done" /\ rs'.ret = RetTrue]_vars

\* C28 witness: resume returned True on an organization without users
\* followed by one it spawned a task for.
C28_Witness ==
    /\ Done /\ rs.ret = RetTrue /\ Len(rs.orgs) = 2
    /\ rs.noUsers = {rs.orgs[1].key}
    /\ \E k \in DOMAIN tasks : tasks[k].org = rs.orgs[2].key

\* The integrations resume does something for.
WorkApps == {"drive", "gmail", "onedrive"}

\* The first integration at or after position `from` that resume does
\* something for; past the end of the list if there is none.
FirstWork(apps, from) ==
    LET S == {m \in from..Len(apps) : Lower(apps[m]) \in WorkApps}
    IN IF S = {} THEN Len(apps) + 1 ELSE CHOOSE m \in S : \A n \in S : m <= n

\* The integration loop is at the integration it should be at after position
\* `from` of the list, or past the loop if none is left.
LoopAt(r, apps, from) ==
    IF FirstWork(apps, from) <= Len(apps)
    THEN /\ r.apps = apps /\ r.j = FirstWork(apps, from)
         /\ r.pc \in OrgAwaits \ {"account_init", "get_users", "get_org_apps"}
    ELSE r.pc \in {"account_init", "done"}

\* C29: resume is never suspended at a service or processor call made for a
\* calendar integration; the step that receives the integration list and
\* every step that finishes an integration go to the next integration resume
\* works on, whatever calendar entries lie before it, and spawn nothing for
\* the calendar entries they pass.
C29_CalendarSkipped ==
    [][/\ (rs'.pc \in OrgAwaits \ {"account_init", "get_users", "get_org_apps"}) =>
              Lower(rs'.apps[rs'.j]) \in WorkApps
       /\ \A apps \in SeqUpTo(AppNames, MaxApps) :
              ResumeAppsReturn(FALSE, apps) =>
                  LoopAt(rs', apps, 1) /\ tasks' = tasks /\ rs'.built = rs.built
       /\ (/\ rs.pc \in {"drive_initialize", "gmail_initialize", "od_get_config"}
           /\ rs' # rs /\ rs'.failure = "none") =>
              /\ LoopAt(rs', rs.apps, rs.j + 1)
              /\ \A k \in DOMAIN tasks' : tasks'[k].kind \in
                     {"run", "drive_initial_sync", "gmail_initial_sync"}]_vars

\* C29 witness: the calendar entry at the head of the list was passed over and
\* resume is initializing the drive service that follows it.
C29_Witness ==
    rs.pc = "drive_initialize" /\ rs.apps = <<"CALENDAR", "DRIVE">> /\ rs.j = 2

\* C30: whatever calls of get_initialized_container were made, initialize_container
\* and the wiring have run at most once.
C30_InitializedOnce ==
    lc.initRuns <= 1 /\ lc.wireRuns <= 1

\* C31: the step of a start or resync event that returns true appends exactly
\* one run task, running, of the instance registered at that moment, and
\* keeps every task there was, whatever tasks of that instance are already
\* running; the step of one that returns false leaves the tasks as they were.
\* A start or resync event returns one of the two.
C31_StartResultMatchesSpawn ==
    [][(last'.n = nDispatched + 1 /\ last'.type \in {StartEvent, ResyncEvent}) =>
           /\ last'.ret \in {RetTrue, RetFalse}
           /\ last'.ret = RetTrue =>
                  /\ Len(tasks') = Len(tasks) + 1
                  /\ SubSeq(tasks', 1, Len(tasks)) = tasks
                  /\ tasks'[Len(tasks')].kind = "run"
                  /\ tasks'[Len(tasks')].state = "running"
                  /\ tasks'[Len(tasks')].conn = slot /\ IsInstance(slot)
           /\ last'.ret = RetFalse => tasks' = tasks]_vars

\* C31 witness: a start or resync event has just returned true and spawned a
\* task while an earlier task of the same instance is still running.
C31_Witness ==
    /\ last.type \in {StartEvent, ResyncEvent} /\ last.ret = RetTrue
    /\ last.n = nDispatched /\ Len(tasks) >= 2
    /\ tasks[Len(tasks)].conn = last.ran
    /\ \E k \in 1..(Len(tasks) - 1) :
           tasks[k].conn = last.ran /\ tasks[k].state = "running"

\* C32: the step on which an init event returns true puts the instance that
\* event built in the slot, in place of what the slot held; the step on which
\* an init event returns false, and every step at which an init handler
\* suspends, leaves the slot as it was and registers nothing.  An init event
\* returns one of the two.
C32_InitResultMatchesSlot ==
    [][/\ (last' # last /\ last'.type = InitEvent) =>
              /\ last'.ret \in {RetTrue, RetFalse}
              /\ last'.ret = RetTrue =>
                     /\ IsInstance(last'.built) /\ last'.built.id = last'.n
                     /\ slot' = last'.built /\ slot' # slot
              /\ last'.ret = RetFalse =>
                     slot' = slot /\ ~IsInstance(last'.built)
       /\ (inflight' # inflight /\ last' = last) => slot' = slot]_vars

\* C32 witness: an init event has just returned false, for a reason found
\* after its awaits, and the slot still holds the instance an earlier init
\* registered.
C32_Witness ==
    /\ last.type = InitEvent /\ last.ret = RetFalse
    /\ last.calls = <<"initialize", "get_config">>
    /\ IsInstance(slot) /\ slot.id < last.n

\* C33: when lifespan has ended with the error of a consumer that failed to
\* start, cleanup() has been called on the producer and the producer is not
\* left initialized.
C33_ProducerReleasedOnFailedStartup ==
    (lc.pc = "failed" /\ ConsumerStartupFailed) =>
        /\ Calls("cleanup", "producer") # {}
        /\ lc.producer # "initialized"

\* shutdown_container_resources has returned.
ShutdownReturned == lc.pc = "stopped" /\ lc.shutdownRet = "returned"

\* C34: once shutdown has returned, no step registers a connector or spawns
\* a task.
C34_NoResumeEffectAfterShutdown ==
    [][ShutdownReturned => UNCHANGED <<tasks, slot, odSlot, lastBuilt>>]_vars

====
